---- MODULE Spec2Model ----
(***************************************************************************)
(* TurboPipe (src/turbopipe/lib.rs): caller threads call pipe, sync and    *)
(* close; READ_THREAD_COUNT eternal_reader threads copy the submitted      *)
(* memory into frames and send them to the per-file eternal_writer thread, *)
(* which passes them to write_all.                                         *)
(*                                                                         *)
(* The pending mutex is only ever held over code that cannot block, so     *)
(* each of its critical sections is one action.  The streams mutex is held *)
(* by close across JoinHandle::join, so it is a variable (streamsLock).    *)
(* A spin loop (lock, test, unlock, yield_now, retry) is an action that is *)
(* enabled only when its exit test succeeds.                               *)
(***************************************************************************)
EXTENDS Integers, Sequences, FiniteSets, TLC

\* ---- bounds ----
NumCallers == 2      \* threads calling pipe / sync / close
MaxSubmits == 2      \* pipe calls in one behaviour
MaxCloses == 1       \* close calls in one behaviour

\* TURBOPIPE_READ_THREADS, the size of the reader pool
READ_THREAD_COUNT == 2

Callers == 1..NumCallers
Readers == 1..READ_THREAD_COUNT
Pointers == {1, 2}           \* buffer addresses (Pointer)
Files == {1, 2}              \* FileDescriptor
ByteVals == {0, 1}
Ids == 1..MaxSubmits         \* history: the n-th pipe call
WriterIds == 1..MaxSubmits   \* the n-th spawned eternal_writer thread

\* len_bytes of the buffer at a pointer: `pipe` passes (buf_ptr, len_bytes)
BufLen(p) == p

NoWork == [data |-> 0, size |-> 0, file |-> 0, id |-> 0]
NoFrame == [bytes |-> <<>>, id |-> 0]
NoCall == [data |-> 0, size |-> 0, file |-> 0, id |-> 0, w |-> 0]

VARIABLES
    mem,          \* caller memory: mem[p] is the byte sequence at pointer p
    pc,           \* pc[c]: where caller thread c is
    call,         \* call[c]: arguments (and locals) of caller c's current call
    pending,      \* PendingPointers: pending[f] is the HashSet of file f (no test in
                  \* the code tells an absent key from an empty set)
    queue,        \* the shared unbounded channel of Work
    streams,      \* StreamsMap: streams[f] = writer whose sender is stored, 0 if none
    streamsLock,  \* 0, or the caller holding the streams mutex across join
    nw,           \* number of eternal_writer threads spawned so far
    rpc,          \* rpc[r]: where reader thread r is
    rwork,        \* rwork[r]: the Work reader r received
    rdata,        \* rdata[r]: the Frame reader r copied
    rsender,      \* rsender[r]: the writer whose cloned Sender reader r holds
    wpc,          \* wpc[w]: where writer thread w is
    wfile,        \* wfile[w]: the file writer w writes to
    wq,           \* wq[w]: the unbounded channel of Frames of writer w
    wframe,       \* wframe[w]: the Frame writer w received
    fdOpen,       \* fdOpen[f]: the OS file descriptor f is open
    calls,        \* calls[f]: the write_all calls made on file f, in order
    nsub,         \* history: number of pipe calls started
    ncloses,      \* history: number of close calls started
    subs,         \* history: subs[i] = pointer and file of the i-th pipe call
    raced,        \* history: ids of pipe calls that overlapped a close of their file
    snap,         \* history: snap[c] = ids whose pipe had returned when c's call began
    producer,     \* history: the only caller that has called pipe so far (0: none)
    synced,       \* history: the producer's last pipe was followed by a sync of its own
    closeRaced,   \* history: closeRaced[c] = a pipe to the file overlapped c's close
    afterClose,   \* history: ids of pipe calls begun after a close of their file had
                  \* removed a writer and returned
    copied,       \* history: copied[i] = bytes at the pointer when work i was copied
    pushed,       \* history: pushed[w] = ids sent on writer w's channel, in order
    inOrder       \* history: submit-then-sync discipline of one producer so far

vars == <<mem, pc, call, pending, queue, streams, streamsLock, nw, rpc, rwork,
          rdata, rsender, wpc, wfile, wq, wframe, fdOpen, calls, nsub, ncloses, subs,
          raced, snap, producer, synced, closeRaced, afterClose, copied, pushed,
          inOrder>>

callerVars == <<pc, call>>
readerVars == <<rpc, rwork, rdata, rsender>>
writerVars == <<wpc, wfile, wq, wframe, nw, fdOpen>>
histVars == <<nsub, ncloses, subs, raced, snap, producer, synced, closeRaced,
              afterClose, inOrder>>

\* ---- helpers ----
Fill(p, v) == [i \in 1..BufLen(p) |-> v]

\* ids of the pipe calls that have returned
Returned == (1..nsub) \ {call[c].id : c \in {x \in Callers : pc[x] \in {"make", "pend", "send"}}}

\* p.values().any(|s| s.contains(&data))
AnyContains(p) == \E f \in Files : p \in pending[f]

\* mutant: any() where the code has all()
AllEmptyMut == \E f \in Files : pending[f] = {}

\* p.values().all(|s| s.is_empty())
AllEmpty == \A f \in Files : pending[f] = {}

\* mutant: the Sender clones held by readers do not keep the channel open
SenderAliveMut(w) == \E f \in Files : streams[f] = w

\* a Sender of writer w's channel is alive: the one in streams, or a reader's clone
SenderAlive(w) == \/ \E f \in Files : streams[f] = w
                  \/ \E r \in Readers : rsender[r] = w

\* TurboPipe::new, before any call
InitEngine ==
    /\ mem = [p \in Pointers |-> Fill(p, 0)]
    /\ call = [c \in Callers |-> NoCall]
    /\ pending = [f \in Files |-> {}]
    /\ queue = <<>>
    /\ streams = [f \in Files |-> 0]
    /\ streamsLock = 0
    /\ nw = 0
    /\ rpc = [r \in Readers |-> "recv"]
    /\ rwork = [r \in Readers |-> NoWork]
    /\ rdata = [r \in Readers |-> NoFrame]
    /\ rsender = [r \in Readers |-> 0]
    /\ wpc = [w \in WriterIds |-> "none"]
    /\ wfile = [w \in WriterIds |-> 0]
    /\ wq = [w \in WriterIds |-> <<>>]
    /\ wframe = [w \in WriterIds |-> NoFrame]
    /\ fdOpen = [f \in Files |-> TRUE]
    /\ calls = [f \in Files |-> <<>>]
    /\ nsub = 0
    /\ ncloses = 0
    /\ subs = <<>>
    /\ raced = {}
    /\ snap = [c \in Callers |-> {}]
    /\ producer = 0
    /\ synced = TRUE
    /\ closeRaced = [c \in Callers |-> FALSE]
    /\ afterClose = {}
    /\ copied = [i \in Ids |-> <<>>]
    /\ pushed = [w \in WriterIds |-> <<>>]
    /\ inOrder = TRUE

Init ==
    /\ pc = [c \in Callers |-> "idle"]
    /\ InitEngine

\* ---- the caller's memory ----
\* The caller overwrites the buffer at p.
Mutate(p, v) ==
    /\ mem[p] # Fill(p, v)
    /\ mem' = [mem EXCEPT ![p] = Fill(p, v)]
    /\ UNCHANGED <<callerVars, pending, queue, streams, streamsLock, readerVars,
                   writerVars, calls, histVars, copied, pushed>>

\* ---- pipe ----
\* #[pyfunction] pipe: TURBOPIPE.pipe(buf_ptr, len_bytes, file) is called
PipeCall(c, p, f) ==
    /\ pc[c] = "idle"
    /\ nsub < MaxSubmits
    /\ pc' = [pc EXCEPT ![c] = "make"]
    /\ call' = [call EXCEPT ![c] = [data |-> p, size |-> BufLen(p), file |-> f,
                                    id |-> nsub + 1, w |-> 0]]
    /\ nsub' = nsub + 1
    /\ subs' = Append(subs, [data |-> p, file |-> f])
    /\ raced' = IF \E c2 \in Callers : pc[c2] \in {"cwait", "clock", "cjoin", "cret"}
                                        /\ call[c2].file = f
                THEN raced \cup {nsub + 1} ELSE raced
    /\ closeRaced' = [c2 \in Callers |->
                        closeRaced[c2] \/ (pc[c2] \in {"cwait", "clock", "cjoin", "cret"}
                                           /\ call[c2].file = f)]
    /\ afterClose' = IF /\ \E w \in WriterIds : wfile[w] = f /\ wpc[w] = "exited"
                         /\ \A c2 \in Callers : ~(pc[c2] \in {"cwait", "clock", "cjoin", "cret"}
                                                  /\ call[c2].file = f)
                      THEN afterClose \cup {nsub + 1} ELSE afterClose
    /\ inOrder' = (inOrder /\ producer \in {0, c} /\ synced)
    /\ producer' = IF inOrder' THEN c ELSE 0
    /\ synced' = FALSE
    /\ UNCHANGED <<mem, pending, queue, streams, streamsLock, readerVars, writerVars,
                   calls, ncloses, snap, copied, pushed>>

\* mutant: a file that once had a writer never gets another one
MakeStreamOnceMut(c) ==
    /\ pc[c] = "make"
    /\ streamsLock = 0
    /\ IF streams[call[c].file] # 0 \/ \E w \in WriterIds : wfile[w] = call[c].file
       THEN UNCHANGED <<streams, nw, wpc, wfile>>
       ELSE /\ nw' = nw + 1
            /\ streams' = [streams EXCEPT ![call[c].file] = nw + 1]
            /\ wpc' = [wpc EXCEPT ![nw + 1] = "recv"]
            /\ wfile' = [wfile EXCEPT ![nw + 1] = call[c].file]
    /\ pc' = [pc EXCEPT ![c] = "pend"]
    /\ UNCHANGED <<mem, call, pending, queue, streamsLock, readerVars, wq, wframe,
                   fdOpen, calls, histVars, copied, pushed>>

\* mutant: no contains_key test, every pipe call spawns a writer
MakeStreamMut(c) ==
    /\ pc[c] = "make"
    /\ streamsLock = 0
    /\ nw' = nw + 1
    /\ streams' = [streams EXCEPT ![call[c].file] = nw + 1]
    /\ wpc' = [wpc EXCEPT ![nw + 1] = "recv"]
    /\ wfile' = [wfile EXCEPT ![nw + 1] = call[c].file]
    /\ pc' = [pc EXCEPT ![c] = "pend"]
    /\ UNCHANGED <<mem, call, pending, queue, streamsLock, readerVars, wq, wframe,
                   fdOpen, calls, histVars, copied, pushed>>

\* make_stream
MakeStream(c) ==
    /\ pc[c] = "make"
    /\ streamsLock = 0
    /\ IF streams[call[c].file] # 0
       THEN UNCHANGED <<streams, nw, wpc, wfile>>
       ELSE /\ nw' = nw + 1
            /\ streams' = [streams EXCEPT ![call[c].file] = nw + 1]
            /\ wpc' = [wpc EXCEPT ![nw + 1] = "recv"]
            /\ wfile' = [wfile EXCEPT ![nw + 1] = call[c].file]
    /\ pc' = [pc EXCEPT ![c] = "pend"]
    /\ UNCHANGED <<mem, call, pending, queue, streamsLock, readerVars, wq, wframe,
                   fdOpen, calls, histVars, copied, pushed>>

\* mutant: only the set of the call's own file is searched
PipePendMut(c) ==
    /\ pc[c] = "pend"
    /\ call[c].data \notin pending[call[c].file]
    /\ pending' = [pending EXCEPT ![call[c].file] = @ \cup {call[c].data}]
    /\ pc' = [pc EXCEPT ![c] = "send"]
    /\ UNCHANGED <<mem, call, queue, streams, streamsLock, readerVars, writerVars,
                   calls, histVars, copied, pushed>>

\* the loop of pipe: leaves once no set contains data, inserting it
PipePend(c) ==
    /\ pc[c] = "pend"
    /\ ~AnyContains(call[c].data)
    /\ pending' = [pending EXCEPT ![call[c].file] = @ \cup {call[c].data}]
    /\ pc' = [pc EXCEPT ![c] = "send"]
    /\ UNCHANGED <<mem, call, queue, streams, streamsLock, readerVars, writerVars,
                   calls, histVars, copied, pushed>>

\* self.queue.send(Work {data, size, file}).unwrap(), and pipe returns
PipeSend(c) ==
    /\ pc[c] = "send"
    /\ queue' = Append(queue, [data |-> call[c].data, size |-> call[c].size,
                               file |-> call[c].file, id |-> call[c].id])
    /\ pc' = [pc EXCEPT ![c] = "idle"]
    /\ call' = [call EXCEPT ![c] = NoCall]
    /\ UNCHANGED <<mem, pending, streams, streamsLock, readerVars, writerVars, calls,
                   histVars, copied, pushed>>

\* ---- sync ----
SyncCall(c) ==
    /\ pc[c] = "idle"
    /\ pc' = [pc EXCEPT ![c] = "sync"]
    /\ snap' = [snap EXCEPT ![c] = Returned]
    /\ UNCHANGED <<mem, call, pending, queue, streams, streamsLock, readerVars,
                   writerVars, calls, nsub, ncloses, subs, raced, producer, synced,
                   closeRaced, afterClose, inOrder, copied, pushed>>

\* mutant: sync also waits until every writer has drained its channel
SyncCheckMut(c) ==
    /\ pc[c] = "sync"
    /\ AllEmpty
    /\ \A w \in WriterIds : wq[w] = <<>> /\ wpc[w] # "write"
    /\ pc' = [pc EXCEPT ![c] = "sret"]
    /\ UNCHANGED <<mem, call, pending, queue, streams, streamsLock, readerVars,
                   writerVars, calls, histVars, copied, pushed>>

\* the loop of sync: leaves once every set is empty
SyncCheck(c) ==
    /\ pc[c] = "sync"
    /\ AllEmpty
    /\ pc' = [pc EXCEPT ![c] = "sret"]
    /\ UNCHANGED <<mem, call, pending, queue, streams, streamsLock, readerVars,
                   writerVars, calls, histVars, copied, pushed>>

\* sync returns
SyncReturn(c) ==
    /\ pc[c] = "sret"
    /\ pc' = [pc EXCEPT ![c] = "idle"]
    /\ snap' = [snap EXCEPT ![c] = {}]
    /\ synced' = (synced \/ (inOrder /\ producer = c))
    /\ UNCHANGED <<mem, call, pending, queue, streams, streamsLock, readerVars,
                   writerVars, calls, nsub, ncloses, subs, raced, producer,
                   closeRaced, afterClose, inOrder, copied, pushed>>

\* ---- close ----
CloseCall(c, f) ==
    /\ pc[c] = "idle"
    /\ ncloses < MaxCloses
    /\ ncloses' = ncloses + 1
    /\ pc' = [pc EXCEPT ![c] = "cwait"]
    /\ call' = [call EXCEPT ![c] = [NoCall EXCEPT !.file = f]]
    /\ snap' = [snap EXCEPT ![c] = {i \in Returned : subs[i].file = f}]
    /\ closeRaced' = [closeRaced EXCEPT ![c] =
                        \E c2 \in Callers : pc[c2] \in {"make", "pend", "send"}
                                            /\ call[c2].file = f]
    /\ raced' = raced \cup {call[c2].id : c2 \in {x \in Callers :
                                pc[x] \in {"make", "pend", "send"} /\ call[x].file = f}}
    /\ UNCHANGED <<mem, pending, queue, streams, streamsLock, readerVars, writerVars,
                   calls, nsub, subs, producer, synced, afterClose, inOrder, copied,
                   pushed>>

\* mutant: close does not wait for the file's pending set
CloseWaitMut(c) ==
    /\ pc[c] = "cwait"
    /\ pc' = [pc EXCEPT ![c] = "clock"]
    /\ UNCHANGED <<mem, call, pending, queue, streams, streamsLock, readerVars,
                   writerVars, calls, histVars, copied, pushed>>

\* the loop of close: leaves once the file's set is absent or empty
CloseWait(c) ==
    /\ pc[c] = "cwait"
    /\ pending[call[c].file] = {}
    /\ pc' = [pc EXCEPT ![c] = "clock"]
    /\ UNCHANGED <<mem, call, pending, queue, streams, streamsLock, readerVars,
                   writerVars, calls, histVars, copied, pushed>>

\* mutant: close also empties the file's pending set
CloseLockMut(c) ==
    /\ pc[c] = "clock"
    /\ streamsLock = 0
    /\ pending' = [pending EXCEPT ![call[c].file] = {}]
    /\ IF streams[call[c].file] # 0
       THEN /\ call' = [call EXCEPT ![c].w = streams[call[c].file]]
            /\ streams' = [streams EXCEPT ![call[c].file] = 0]
            /\ streamsLock' = c
            /\ pc' = [pc EXCEPT ![c] = "cjoin"]
       ELSE /\ pc' = [pc EXCEPT ![c] = "cret"]
            /\ UNCHANGED <<call, streams, streamsLock>>
    /\ UNCHANGED <<mem, queue, readerVars, writerVars, calls, histVars, copied, pushed>>

\* streams.lock(); streams.remove(&file); drop(w.sender)
CloseLock(c) ==
    /\ pc[c] = "clock"
    /\ streamsLock = 0
    /\ IF streams[call[c].file] # 0
       THEN /\ call' = [call EXCEPT ![c].w = streams[call[c].file]]
            /\ streams' = [streams EXCEPT ![call[c].file] = 0]
            /\ streamsLock' = c
            /\ pc' = [pc EXCEPT ![c] = "cjoin"]
       ELSE /\ pc' = [pc EXCEPT ![c] = "cret"]
            /\ UNCHANGED <<call, streams, streamsLock>>
    /\ UNCHANGED <<mem, pending, queue, readerVars, writerVars, calls, histVars,
                   copied, pushed>>

\* mutant: the writer thread is not joined
CloseJoinMut(c) ==
    /\ pc[c] = "cjoin"
    /\ streamsLock' = 0
    /\ pc' = [pc EXCEPT ![c] = "cret"]
    /\ UNCHANGED <<mem, call, pending, queue, streams, readerVars, writerVars, calls,
                   histVars, copied, pushed>>

\* w.handle.join() returns; the streams guard is dropped
CloseJoin(c) ==
    /\ pc[c] = "cjoin"
    /\ wpc[call[c].w] = "exited"
    /\ streamsLock' = 0
    /\ pc' = [pc EXCEPT ![c] = "cret"]
    /\ UNCHANGED <<mem, call, pending, queue, streams, readerVars, writerVars, calls,
                   histVars, copied, pushed>>

\* close returns
CloseReturn(c) ==
    /\ pc[c] = "cret"
    /\ pc' = [pc EXCEPT ![c] = "idle"]
    /\ call' = [call EXCEPT ![c] = NoCall]
    /\ snap' = [snap EXCEPT ![c] = {}]
    /\ closeRaced' = [closeRaced EXCEPT ![c] = FALSE]
    /\ UNCHANGED <<mem, pending, queue, streams, streamsLock, readerVars, writerVars,
                   calls, nsub, ncloses, subs, raced, producer, synced, afterClose,
                   inOrder, copied, pushed>>

\* ---- eternal_reader ----
\* mutant: the reader drops the work it received
ReaderRecvMut(r) ==
    /\ rpc[r] = "recv"
    /\ queue # <<>>
    /\ queue' = Tail(queue)
    /\ UNCHANGED <<mem, callerVars, pending, streams, streamsLock, readerVars,
                   writerVars, calls, histVars, copied, pushed>>

\* this.queue.recv()
ReaderRecv(r) ==
    /\ rpc[r] = "recv"
    /\ queue # <<>>
    /\ rwork' = [rwork EXCEPT ![r] = Head(queue)]
    /\ queue' = Tail(queue)
    /\ rpc' = [rpc EXCEPT ![r] = "copy"]
    /\ UNCHANGED <<mem, callerVars, pending, streams, streamsLock, rdata, rsender,
                   writerVars, calls, histVars, copied, pushed>>

\* mutant: the copy is one byte short
ReaderCopyMut(r) ==
    /\ rpc[r] = "copy"
    /\ rdata' = [rdata EXCEPT ![r] = [bytes |-> SubSeq(mem[rwork[r].data], 1, rwork[r].size - 1),
                                      id |-> rwork[r].id]]
    /\ copied' = [copied EXCEPT ![rwork[r].id] = mem[rwork[r].data]]
    /\ rpc' = [rpc EXCEPT ![r] = "lookup"]
    /\ UNCHANGED <<mem, callerVars, pending, queue, streams, streamsLock, rwork, rsender,
                   writerVars, calls, histVars, pushed>>

\* from_raw_parts(work.data, work.size).to_vec()
ReaderCopy(r) ==
    /\ rpc[r] = "copy"
    /\ rdata' = [rdata EXCEPT ![r] = [bytes |-> SubSeq(mem[rwork[r].data], 1, rwork[r].size),
                                      id |-> rwork[r].id]]
    /\ copied' = [copied EXCEPT ![rwork[r].id] = mem[rwork[r].data]]
    /\ rpc' = [rpc EXCEPT ![r] = "lookup"]
    /\ UNCHANGED <<mem, callerVars, pending, queue, streams, streamsLock, rwork, rsender,
                   writerVars, calls, histVars, pushed>>

\* mutant: the pointer is removed from pending before the frame is sent
ReaderLookupMut(r) ==
    /\ rpc[r] = "lookup"
    /\ streamsLock = 0
    /\ pending' = [pending EXCEPT ![rwork[r].file] = @ \ {rwork[r].data}]
    /\ rsender' = [rsender EXCEPT ![r] = streams[rwork[r].file]]
    /\ IF streams[rwork[r].file] # 0
       THEN /\ rpc' = [rpc EXCEPT ![r] = "send"]
            /\ UNCHANGED rdata
       ELSE /\ rpc' = [rpc EXCEPT ![r] = "unpend"]
            /\ rdata' = [rdata EXCEPT ![r] = NoFrame]
    /\ UNCHANGED <<mem, callerVars, queue, streams, streamsLock, rwork,
                   writerVars, calls, histVars, copied, pushed>>

\* mutant: without a writer the reader goes straight back to recv
ReaderLookupDropMut(r) ==
    /\ rpc[r] = "lookup"
    /\ streamsLock = 0
    /\ rsender' = [rsender EXCEPT ![r] = streams[rwork[r].file]]
    /\ IF streams[rwork[r].file] # 0
       THEN /\ rpc' = [rpc EXCEPT ![r] = "send"]
            /\ UNCHANGED <<rdata, rwork>>
       ELSE /\ rpc' = [rpc EXCEPT ![r] = "recv"]
            /\ rdata' = [rdata EXCEPT ![r] = NoFrame]
            /\ rwork' = [rwork EXCEPT ![r] = NoWork]
    /\ UNCHANGED <<mem, callerVars, pending, queue, streams, streamsLock,
                   writerVars, calls, histVars, copied, pushed>>

\* this.streams.lock().unwrap().get(&work.file).map(|w| w.sender.clone())
ReaderLookup(r) ==
    /\ rpc[r] = "lookup"
    /\ streamsLock = 0
    /\ rsender' = [rsender EXCEPT ![r] = streams[rwork[r].file]]
    /\ IF streams[rwork[r].file] # 0
       THEN /\ rpc' = [rpc EXCEPT ![r] = "send"]
            /\ UNCHANGED rdata
       ELSE /\ rpc' = [rpc EXCEPT ![r] = "unpend"]
            /\ rdata' = [rdata EXCEPT ![r] = NoFrame]
    /\ UNCHANGED <<mem, callerVars, pending, queue, streams, streamsLock, rwork,
                   writerVars, calls, histVars, copied, pushed>>

\* sender.send(data).unwrap(): panics when the receiver is gone
ReaderSend(r) ==
    /\ rpc[r] = "send"
    /\ IF wpc[rsender[r]] = "exited"
       THEN /\ rpc' = [rpc EXCEPT ![r] = "dead"]
            /\ UNCHANGED <<wq, pushed>>
       ELSE /\ wq' = [wq EXCEPT ![rsender[r]] = Append(@, rdata[r])]
            /\ pushed' = [pushed EXCEPT ![rsender[r]] = Append(@, rdata[r].id)]
            /\ rpc' = [rpc EXCEPT ![r] = "unpend"]
    /\ rsender' = [rsender EXCEPT ![r] = 0]
    /\ rdata' = [rdata EXCEPT ![r] = NoFrame]
    /\ UNCHANGED <<mem, callerVars, pending, queue, streams, streamsLock, rwork, wpc,
                   wfile, wframe, nw, fdOpen, calls, histVars, copied>>

\* mutant: the pointer stays pending until the file's writer is idle
ReaderUnpendMut(r) ==
    /\ rpc[r] = "unpend"
    /\ \A w \in WriterIds : wfile[w] = rwork[r].file => (wq[w] = <<>> /\ wpc[w] # "write")
    /\ pending' = [pending EXCEPT ![rwork[r].file] = @ \ {rwork[r].data}]
    /\ rwork' = [rwork EXCEPT ![r] = NoWork]
    /\ rpc' = [rpc EXCEPT ![r] = "recv"]
    /\ UNCHANGED <<mem, callerVars, queue, streams, streamsLock, rdata, rsender,
                   writerVars, calls, histVars, copied, pushed>>

\* p.get_mut(&work.file): set.remove(&work.data)
ReaderUnpend(r) ==
    /\ rpc[r] = "unpend"
    /\ pending' = [pending EXCEPT ![rwork[r].file] = @ \ {rwork[r].data}]
    /\ rwork' = [rwork EXCEPT ![r] = NoWork]
    /\ rpc' = [rpc EXCEPT ![r] = "recv"]
    /\ UNCHANGED <<mem, callerVars, queue, streams, streamsLock, rdata, rsender,
                   writerVars, calls, histVars, copied, pushed>>

\* ---- eternal_writer ----
\* mutant: the writer takes the newest frame of its channel
WriterRecvMut(w) ==
    /\ wpc[w] = "recv"
    /\ wq[w] # <<>>
    /\ wframe' = [wframe EXCEPT ![w] = wq[w][Len(wq[w])]]
    /\ wq' = [wq EXCEPT ![w] = SubSeq(@, 1, Len(@) - 1)]
    /\ wpc' = [wpc EXCEPT ![w] = "write"]
    /\ UNCHANGED <<mem, callerVars, pending, queue, streams, streamsLock, readerVars,
                   wfile, nw, fdOpen, calls, histVars, copied, pushed>>

\* rx.recv() returns Ok(data)
WriterRecv(w) ==
    /\ wpc[w] = "recv"
    /\ wq[w] # <<>>
    /\ wframe' = [wframe EXCEPT ![w] = Head(wq[w])]
    /\ wq' = [wq EXCEPT ![w] = Tail(@)]
    /\ wpc' = [wpc EXCEPT ![w] = "write"]
    /\ UNCHANGED <<mem, callerVars, pending, queue, streams, streamsLock, readerVars,
                   wfile, nw, fdOpen, calls, histVars, copied, pushed>>

\* mutant: a failed write ends the writer's loop
WriterWriteMut(w, ok) ==
    /\ wpc[w] = "write"
    /\ calls' = [calls EXCEPT ![wfile[w]] =
                    Append(@, [id |-> wframe[w].id, bytes |-> wframe[w].bytes,
                               ok |-> ok, w |-> w])]
    /\ wframe' = [wframe EXCEPT ![w] = NoFrame]
    /\ wpc' = [wpc EXCEPT ![w] = IF ok THEN "recv" ELSE "exited"]
    /\ UNCHANGED <<mem, callerVars, pending, queue, streams, streamsLock, readerVars,
                   wfile, wq, nw, fdOpen, histVars, copied, pushed>>

\* let _ = file.write_all(&data): the call returns Ok or Err
WriterWrite(w, ok) ==
    /\ wpc[w] = "write"
    /\ calls' = [calls EXCEPT ![wfile[w]] =
                    Append(@, [id |-> wframe[w].id, bytes |-> wframe[w].bytes,
                               ok |-> ok, w |-> w])]
    /\ wframe' = [wframe EXCEPT ![w] = NoFrame]
    /\ wpc' = [wpc EXCEPT ![w] = "recv"]
    /\ UNCHANGED <<mem, callerVars, pending, queue, streams, streamsLock, readerVars,
                   wfile, wq, nw, fdOpen, histVars, copied, pushed>>

\* mutant: the File is dropped when the writer ends, which closes the descriptor
WriterExitDropMut(w) ==
    /\ wpc[w] = "recv"
    /\ wq[w] = <<>>
    /\ ~SenderAlive(w)
    /\ wpc' = [wpc EXCEPT ![w] = "exited"]
    /\ fdOpen' = [fdOpen EXCEPT ![wfile[w]] = FALSE]
    /\ UNCHANGED <<mem, callerVars, pending, queue, streams, streamsLock, readerVars,
                   wfile, wq, wframe, nw, calls, histVars, copied, pushed>>

\* mutant: the writer takes the streams mutex before it ends
WriterExitLockMut(w) ==
    /\ wpc[w] = "recv"
    /\ wq[w] = <<>>
    /\ ~SenderAlive(w)
    /\ streamsLock = 0
    /\ wpc' = [wpc EXCEPT ![w] = "exited"]
    /\ UNCHANGED <<mem, callerVars, pending, queue, streams, streamsLock, readerVars,
                   wfile, wq, wframe, nw, fdOpen, calls, histVars, copied, pushed>>

\* rx.recv() returns Err: the channel is empty and every Sender is dropped; the
\* File made by from_raw_fd is passed to mem::forget, not dropped
WriterExit(w) ==
    /\ wpc[w] = "recv"
    /\ wq[w] = <<>>
    /\ ~SenderAlive(w)
    /\ wpc' = [wpc EXCEPT ![w] = "exited"]
    /\ UNCHANGED <<mem, callerVars, pending, queue, streams, streamsLock, readerVars,
                   wfile, wq, wframe, nw, fdOpen, calls, histVars, copied, pushed>>

Next ==
    \/ \E c \in Callers, p \in Pointers, f \in Files : PipeCall(c, p, f)
    \/ \E c \in Callers : MakeStream(c)
    \/ \E c \in Callers : PipePend(c)
    \/ \E c \in Callers : PipeSend(c)
    \/ \E c \in Callers : SyncCall(c)
    \/ \E c \in Callers : SyncCheck(c)
    \/ \E c \in Callers : SyncReturn(c)
    \/ \E c \in Callers, f \in Files : CloseCall(c, f)
    \/ \E c \in Callers : CloseWait(c)
    \/ \E c \in Callers : CloseLock(c)
    \/ \E c \in Callers : CloseJoin(c)
    \/ \E c \in Callers : CloseReturn(c)
    \/ \E r \in Readers : ReaderRecv(r)
    \/ \E r \in Readers : ReaderCopy(r)
    \/ \E r \in Readers : ReaderLookup(r)
    \/ \E r \in Readers : ReaderSend(r)
    \/ \E r \in Readers : ReaderUnpend(r)
    \/ \E w \in WriterIds : WriterRecv(w)
    \/ \E w \in WriterIds, ok \in BOOLEAN : WriterWrite(w, ok)
    \/ \E w \in WriterIds : WriterExit(w)

\* Two callers; the callers leave their buffers alone.
Spec == Init /\ [][Next]_vars

\* One caller, which also overwrites its buffers at any moment.
InitMem ==
    /\ pc = [c \in Callers |-> IF c = 1 THEN "idle" ELSE "off"]
    /\ InitEngine

NextMem ==
    \/ Next
    \/ \E p \in Pointers, v \in ByteVals : Mutate(p, v)

SpecMem == InitMem /\ [][NextMem]_vars

\* Callers only submit; every thread is scheduled fairly, but a write_all call
\* need not return.
NextSubmit ==
    \/ \E c \in Callers, p \in Pointers, f \in Files : PipeCall(c, p, f)
    \/ \E c \in Callers : MakeStream(c)
    \/ \E c \in Callers : PipePend(c)
    \/ \E c \in Callers : PipeSend(c)
    \/ \E r \in Readers : ReaderRecv(r)
    \/ \E r \in Readers : ReaderCopy(r)
    \/ \E r \in Readers : ReaderLookup(r)
    \/ \E r \in Readers : ReaderSend(r)
    \/ \E r \in Readers : ReaderUnpend(r)
    \/ \E w \in WriterIds : WriterRecv(w)
    \/ \E w \in WriterIds, ok \in BOOLEAN : WriterWrite(w, ok)

FairSubmit ==
    /\ \A c \in Callers : /\ WF_vars(MakeStream(c))
                          /\ WF_vars(PipePend(c))
                          /\ WF_vars(PipeSend(c))
    /\ \A r \in Readers : /\ WF_vars(ReaderRecv(r))
                          /\ WF_vars(ReaderCopy(r))
                          /\ WF_vars(ReaderLookup(r))
                          /\ WF_vars(ReaderSend(r))
                          /\ WF_vars(ReaderUnpend(r))
    /\ \A w \in WriterIds : WF_vars(WriterRecv(w))

SpecSubmit == Init /\ [][NextSubmit]_vars /\ FairSubmit

\* Every call is allowed; every thread is scheduled fairly and every write_all
\* call returns.
FairAll ==
    /\ \A c \in Callers : /\ WF_vars(MakeStream(c))
                          /\ WF_vars(PipePend(c))
                          /\ WF_vars(PipeSend(c))
                          /\ WF_vars(SyncCheck(c))
                          /\ WF_vars(SyncReturn(c))
                          /\ WF_vars(CloseWait(c))
                          /\ WF_vars(CloseLock(c))
                          /\ WF_vars(CloseJoin(c))
                          /\ WF_vars(CloseReturn(c))
    /\ \A r \in Readers : /\ WF_vars(ReaderRecv(r))
                          /\ WF_vars(ReaderCopy(r))
                          /\ WF_vars(ReaderLookup(r))
                          /\ WF_vars(ReaderSend(r))
                          /\ WF_vars(ReaderUnpend(r))
    /\ \A w \in WriterIds : /\ WF_vars(WriterRecv(w))
                            /\ WF_vars(\E ok \in BOOLEAN : WriterWrite(w, ok))
                            /\ WF_vars(WriterExit(w))

\* One caller submits while the other calls sync and close.
NextLive ==
    \/ \E p \in Pointers, f \in Files : PipeCall(1, p, f)
    \/ \E c \in Callers : MakeStream(c)
    \/ \E c \in Callers : PipePend(c)
    \/ \E c \in Callers : PipeSend(c)
    \/ SyncCall(2)
    \/ \E c \in Callers : SyncCheck(c)
    \/ \E c \in Callers : SyncReturn(c)
    \/ \E f \in Files : CloseCall(2, f)
    \/ \E c \in Callers : CloseWait(c)
    \/ \E c \in Callers : CloseLock(c)
    \/ \E c \in Callers : CloseJoin(c)
    \/ \E c \in Callers : CloseReturn(c)
    \/ \E r \in Readers : ReaderRecv(r)
    \/ \E r \in Readers : ReaderCopy(r)
    \/ \E r \in Readers : ReaderLookup(r)
    \/ \E r \in Readers : ReaderSend(r)
    \/ \E r \in Readers : ReaderUnpend(r)
    \/ \E w \in WriterIds : WriterRecv(w)
    \/ \E w \in WriterIds, ok \in BOOLEAN : WriterWrite(w, ok)
    \/ \E w \in WriterIds : WriterExit(w)

SpecLive == Init /\ [][NextLive]_vars /\ FairAll

\* ---- properties ----
\* ids of the works a reader has still to read from caller memory
Uncopied == {queue[k].id : k \in 1..Len(queue)}
            \cup {rwork[r].id : r \in {x \in Readers : rpc[x] = "copy"}}

\* ids passed to write_all on file f
Written(f) == {calls[f][k].id : k \in 1..Len(calls[f])}

\* works for pointer p that are about to be enqueued, enqueued, or held by a reader
InFlight(p) ==
    Cardinality({c \in Callers : pc[c] = "send" /\ call[c].data = p})
    + Cardinality({k \in 1..Len(queue) : queue[k].data = p})
    + Cardinality({r \in Readers : rwork[r].data = p})

\* C1: when sync has left its loop, no pointer whose pipe call returned before
\* the sync call began is still to be read: its work is neither in the shared
\* queue nor in a reader that has yet to copy it.
C1_SyncSafe ==
    \A c \in Callers : pc[c] = "sret" => snap[c] \cap Uncopied = {}

\* C1 witness: a sync returns that began after two pipe calls to different
\* files had returned.
C1_Witness ==
    \E c \in Callers : /\ pc[c] = "sret"
                        /\ \E i, j \in snap[c] : subs[i].file # subs[j].file

\* C2: when close(f) is about to return, every frame whose pipe call to f
\* returned before the close call began, and did not overlap a close of f, has
\* been passed to write_all on f.
C2_CloseFlushes ==
    \A c \in Callers :
        pc[c] = "cret" => (snap[c] \ raced) \subseteq Written(call[c].file)

\* C2 witness: a close returns after a frame submitted before it was written
\* by the writer the close removed.
C2_Witness ==
    \E c \in Callers : /\ pc[c] = "cret"
                        /\ call[c].w # 0
                        /\ snap[c] # {}
                        /\ snap[c] \subseteq Written(call[c].file)

\* C3: when close(f) is about to return and no pipe call to f overlapped it,
\* streams has no entry for f and no eternal_writer thread of f is running.
C3_CloseRemoves ==
    \A c \in Callers :
        (pc[c] = "cret" /\ ~closeRaced[c]) =>
            /\ streams[call[c].file] = 0
            /\ \A w \in WriterIds : wfile[w] = call[c].file => wpc[w] = "exited"

\* C3 witness: a close that removed a writer returns, unraced, with the writer
\* exited and its writes done.
C3_Witness ==
    \E c \in Callers : /\ pc[c] = "cret"
                        /\ ~closeRaced[c]
                        /\ call[c].w # 0
                        /\ wpc[call[c].w] = "exited"
                        /\ calls[call[c].file] # <<>>

\* C4: for every pointer at most one work is in flight (about to be enqueued,
\* enqueued, or held by a reader), whichever files are named.
C4_OneInFlight ==
    \A p \in Pointers : InFlight(p) <= 1

\* C4 witness: a pipe call spins because its pointer is pending under another
\* file.
C4_Witness ==
    \E c \in Callers : /\ pc[c] = "pend"
                        /\ \E f \in Files \ {call[c].file} : call[c].data \in pending[f]

\* C5: a pipe call whose pointer is in no pending set is never held up behind a
\* write_all call: it never waits at make_stream for the streams mutex while
\* the close holding it joins a writer that is inside write_all.  (Stated for
\* behaviours in which no pipe call has overlapped a close of its own file.)
C5_SubmitNeverWaitsOnWrite ==
    \A c \in Callers :
        (pc[c] = "make" /\ ~AnyContains(call[c].data) /\ raced = {}) =>
            ~(streamsLock # 0 /\ wpc[call[streamsLock].w] = "write")

\* C6: while one producer has submitted and has called sync after each pipe
\* before the next, the write_all calls on every file are in submission order.
C6_SubmitSyncOrder ==
    inOrder =>
        \A f \in Files : \A j, k \in 1..Len(calls[f]) :
            j < k => calls[f][j].id < calls[f][k].id

\* C6 witness: the disciplined producer's two frames were both written to
\* one file.
C6_Witness ==
    /\ inOrder
    /\ \E f \in Files : Len(calls[f]) = 2 /\ calls[f][1].id = 1 /\ calls[f][2].id = 2

\* C7: with callers that only submit, for either file o: every pipe call to o
\* returns, and if o's writer is again and again outside write_all, every
\* frame submitted to o is passed to write_all on o; nothing is assumed of the
\* other file's writer, which may stay inside one write_all call forever.
C7_NoCrossStall ==
    \A o \in Files :
        /\ \A c \in Callers :
              (pc[c] \in {"make", "pend", "send"} /\ call[c].file = o) ~> (pc[c] = "idle")
        /\ ([]<>(\A w \in WriterIds : wfile[w] = o => wpc[w] # "write"))
              => \A i \in Ids : (i <= nsub /\ subs[i].file = o) ~> (i \in Written(o))

\* C7 witness: the writer of file 1 is still inside its first write_all call,
\* of frame 1, and frame 2, submitted later, has been written to file 2.
C7_Witness ==
    /\ calls[1] = <<>>
    /\ \E w \in WriterIds : wfile[w] = 1 /\ wpc[w] = "write" /\ wframe[w].id = 1
    /\ 2 \in Written(2)

\* nothing is in the pipeline: no pipe call in progress, nothing queued, every
\* reader and writer waiting in recv
Quiescent ==
    /\ \A c \in Callers : pc[c] \notin {"make", "pend", "send"}
    /\ queue = <<>>
    /\ \A r \in Readers : rpc[r] = "recv"
    /\ \A w \in WriterIds : wq[w] = <<>> /\ wpc[w] # "write"

\* number of write_all calls made with frame i
TimesWritten(i) ==
    Cardinality({<<f, k>> \in Files \X (1..MaxSubmits) :
                    k <= Len(calls[f]) /\ calls[f][k].id = i})

\* C8: every write_all call on a file f is made with a frame that was
\* submitted with file f and whose bytes are those the pointer held when the
\* reader copied it; no work is written twice; and once the pipeline is empty
\* every work whose pipe call overlapped no close of its file was written once.
C8_ByteExact ==
    /\ \A f \in Files : \A k \in 1..Len(calls[f]) :
          /\ subs[calls[f][k].id].file = f
          /\ calls[f][k].bytes = copied[calls[f][k].id]
    /\ \A i \in 1..nsub : TimesWritten(i) <= 1
    /\ Quiescent => \A i \in (1..nsub) \ raced : TimesWritten(i) = 1

\* C8 witness: a frame was written with bytes the caller stored after the
\* engine was created, and the caller has overwritten the buffer since.
C8_Witness ==
    \E f \in Files : \E k \in 1..Len(calls[f]) :
        /\ calls[f][k].ok
        /\ calls[f][k].bytes # Fill(subs[calls[f][k].id].data, 0)
        /\ calls[f][k].bytes # mem[subs[calls[f][k].id].data]

\* ids of the frames writer w passed to write_all, in order
CallIds(w) ==
    LET mine == SelectSeq(calls[wfile[w]], LAMBDA e : e.w = w)
    IN  [k \in 1..Len(mine) |-> mine[k].id]

\* ids of the frames writer w holds or has still to receive, in order
ToWrite(w) ==
    (IF wpc[w] = "write" THEN <<wframe[w].id>> ELSE <<>>)
    \o [k \in 1..Len(wq[w]) |-> wq[w][k].id]

\* C9: whether its write_all calls fail or not, a writer passes every frame
\* sent on its channel to write_all once, in channel order, and it exits only
\* with its channel empty and every Sender dropped.
C9_FailureDropsFrameOnly ==
    \A w \in 1..nw :
        /\ pushed[w] = CallIds(w) \o ToWrite(w)
        /\ wpc[w] = "exited" => (wq[w] = <<>> /\ ~SenderAlive(w))

\* C9 witness: a writer's first write_all call failed and the same writer made
\* a second call with the next frame.
C9_Witness ==
    \E f \in Files :
        /\ Len(calls[f]) = 2
        /\ ~calls[f][1].ok
        /\ calls[f][2].w = calls[f][1].w
        /\ calls[f][2].id # calls[f][1].id

\* C10: sync is held up by the pending sets only: whenever they are all empty
\* a sync call can leave its loop, whatever the writers' channels hold.
C10_SyncCopyStageOnly ==
    \A c \in Callers : (pc[c] = "sync" /\ AllEmpty) => ENABLED SyncCheck(c)

\* C10 witness: sync has left its loop while a frame whose pipe call returned
\* before the sync call began is in its writer's channel, not yet received.
C10_Witness ==
    \E c \in Callers :
        /\ pc[c] = "sret"
        /\ \E i \in snap[c] : \E w \in WriterIds : \E k \in 1..Len(wq[w]) :
              /\ wq[w][k].id = i
              /\ i \notin Written(wfile[w])

\* ids of the works in the shared queue
Queued == {queue[k].id : k \in 1..Len(queue)}

\* ids of the works a reader holds
Held == {rwork[r].id : r \in {x \in Readers : rpc[x] \in {"copy", "lookup", "send", "unpend"}}}

\* ids of the works whose pointer pipe has inserted and whose reader has not
\* finished its iteration
InFlightIds == {call[c].id : c \in {x \in Callers : pc[x] = "send"}} \cup Queued \cup Held

\* ids sent on writer w's channel
PushedIds(w) == {pushed[w][k] : k \in 1..Len(pushed[w])}

\* writer w was sent frames only of pipe calls begun after a close of its file
\* had returned, or overlapping one
FreshWriter(w) == PushedIds(w) \subseteq (afterClose \cup raced)

\* C11: a frame whose pipe call began after close(f) had removed f's writer
\* and returned is sent to a writer of f that was sent nothing submitted before
\* that close, and it is in the end passed to write_all on f by such a writer,
\* with the bytes the reader copied.
C11_ResubmitRecreatesWriter ==
    /\ [](\A i \in afterClose \ raced : \A w \in WriterIds :
             i \in PushedIds(w) => (wfile[w] = subs[i].file /\ FreshWriter(w)))
    /\ \A i \in Ids :
          (i \in afterClose) ~>
              (/\ i \in afterClose
               /\ \/ i \in raced
                  \/ \E k \in 1..Len(calls[subs[i].file]) :
                        /\ calls[subs[i].file][k].id = i
                        /\ calls[subs[i].file][k].bytes = copied[i]
                        /\ FreshWriter(calls[subs[i].file][k].w))

\* C11 witness: file f was written by its first writer, which close made exit,
\* and then by a second writer, spawned for a pipe call begun after the close.
C11_Witness ==
    \E f \in Files :
        /\ Len(calls[f]) = 2
        /\ wpc[calls[f][1].w] = "exited"
        /\ calls[f][2].w # calls[f][1].w
        /\ calls[f][2].id \in afterClose \ raced
        /\ PushedIds(calls[f][2].w) = {calls[f][2].id}

\* C12: no step of the engine changes whether a file descriptor is open.
C12_FdLeftOpen == [][fdOpen' = fdOpen]_vars

\* C12 witness: close has returned, the writer it removed has written and
\* exited, and the file descriptor is open.
C12_Witness ==
    /\ ncloses > 0
    /\ \A c \in Callers : pc[c] = "idle"
    /\ \E w \in WriterIds : /\ wpc[w] = "exited"
                             /\ calls[wfile[w]] # <<>>
                             /\ fdOpen[wfile[w]]

\* the eternal_writer threads of file f that are running
LiveWriters(f) == {w \in WriterIds : wfile[w] = f /\ wpc[w] \in {"recv", "write"}}

\* C13: every file has at most one running writer thread, and a streams entry
\* of the file is the Sender of exactly that thread.
C13_OneWriterPerFile ==
    \A f \in Files :
        /\ Cardinality(LiveWriters(f)) <= 1
        /\ streams[f] # 0 => LiveWriters(f) = {streams[f]}

\* C13 witness: two pipe calls to one file are past make_stream together and
\* one writer was spawned.
C13_Witness ==
    /\ nw = 1
    /\ pc[1] \in {"pend", "send"}
    /\ pc[2] \in {"pend", "send"}
    /\ call[1].file = call[2].file

\* C14 as stated: a reader that is about to look up the writer, or to send the
\* frame, has already removed the work's pointer from pending.
C14_UnpendBeforeLookup ==
    \A r \in Readers :
        rpc[r] \in {"lookup", "send"} => rwork[r].data \notin pending[rwork[r].file]

\* C14: from receiving a work until the end of the iteration, so through the
\* copy, the lookup and the send, the work's pointer is in pending; the reader
\* removes it only after the frame was sent or discarded.
C14_UnpendAfterPush ==
    \A r \in Readers :
        rpc[r] \in {"copy", "lookup", "send", "unpend"} =>
            rwork[r].data \in pending[rwork[r].file]

\* C14 witness: a reader has sent its frame to the writer and the pointer is
\* still pending.
C14_Witness ==
    \E r \in Readers :
        /\ rpc[r] = "unpend"
        /\ \E w \in WriterIds : rwork[r].id \in PushedIds(w)
        /\ rwork[r].data \in pending[rwork[r].file]

\* ids of the works that were copied and then dropped by the reader
Discarded ==
    {i \in 1..nsub :
        /\ copied[i] # <<>>
        /\ \A w \in WriterIds : i \notin PushedIds(w)
        /\ \A r \in Readers : ~(rpc[r] \in {"lookup", "send"} /\ rwork[r].id = i)}

\* C15: no reader thread ends; a frame the reader dropped for want of a writer
\* is never passed to write_all; and once the reader has finished with it, its
\* pointer is pending only if a later work with the same pointer and file is
\* in flight.
C15_DiscardIsSilent ==
    /\ \A r \in Readers : rpc[r] # "dead"
    /\ \A i \in Discarded :
          /\ TimesWritten(i) = 0
          /\ (i \notin Held /\ subs[i].data \in pending[subs[i].file]) =>
                \E j \in InFlightIds \ {i} : subs[j] = subs[i]

\* C15 witness: a sync has left its loop after a frame was dropped, and a
\* work submitted after the dropped one was written.
C15_Witness ==
    \E c \in Callers :
        /\ pc[c] = "sret"
        /\ \E i \in Discarded \ Held : \E j \in 1..nsub :
              j > i /\ j \in Written(subs[j].file)

\* C16: a writer makes its write_all calls in the order in which the readers
\* sent the frames on its channel, whatever the order of the pipe calls.
C16_WriteOrderIsPushOrder ==
    \A w \in 1..nw : \A k \in 1..Len(CallIds(w)) : CallIds(w)[k] = pushed[w][k]

\* C16 witness: the one caller submitted two frames to one file with no sync
\* between them and the writer wrote the second before the first.
C16_Witness ==
    /\ ~inOrder
    /\ \E f \in Files : /\ Len(calls[f]) = 2
                         /\ calls[f][1].id = 2
                         /\ calls[f][2].id = 1
                         /\ calls[f][1].w = calls[f][2].w

\* C17: a work whose pipe call has returned and that was not copied yet is on
\* the shared queue or with a reader; and every work on the shared queue is
\* in the end received by a reader, copied, and its pointer removed from
\* pending.
C17_QueuedWorkIsServed ==
    /\ [](\A i \in Returned : copied[i] = <<>> => i \in Uncopied)
    /\ \A i \in Ids :
          (i \in Queued) ~> (/\ i \notin Queued
                             /\ i \notin Held
                             /\ copied[i] # <<>>
                             /\ subs[i].data \notin pending[subs[i].file])

\* C17 witness: the first work was received, copied and removed from pending
\* while the second is still on the shared queue.
C17_Witness ==
    /\ 2 \in Queued
    /\ 1 \notin Held
    /\ copied[1] # <<>>
    /\ subs[1].data \notin pending[subs[1].file]

\* C18: the pending set of a file holds the pointers of the works in flight
\* for that file and nothing else; a step that changes it is pipe inserting
\* its pointer or a reader removing the pointer of its work.
C18_PendingIsInFlight ==
    /\ [](\A f \in Files :
             pending[f] = {subs[i].data : i \in {j \in InFlightIds : subs[j].file = f}})
    /\ [][\A f \in Files : pending'[f] # pending[f] =>
             \/ \E c \in Callers : /\ pc[c] = "pend" /\ pc'[c] = "send"
                                   /\ call[c].file = f
                                   /\ pending'[f] = pending[f] \cup {call[c].data}
             \/ \E r \in Readers : /\ rpc[r] = "unpend" /\ rpc'[r] = "recv"
                                   /\ rwork[r].file = f
                                   /\ pending'[f] = pending[f] \ {rwork[r].data}]_vars

\* C18 witness: two pointers are pending, one of a work on the shared queue
\* and one of a work whose frame a reader has sent, while a close waits.
C18_Witness ==
    /\ Cardinality(InFlightIds) = 2
    /\ Queued # {}
    /\ \E r \in Readers : rpc[r] = "unpend"
    /\ \E c \in Callers : pc[c] = "cwait"

\* C19: the streams mutex is held only by a close that waits in join, and
\* every sync call and every close call returns.
C19_NoDeadlock ==
    /\ [](streamsLock # 0 => pc[streamsLock] = "cjoin")
    /\ \A c \in Callers : (pc[c] \in {"sync", "sret"}) ~> (pc[c] = "idle")
    /\ \A c \in Callers : (pc[c] \in {"cwait", "clock", "cjoin", "cret"}) ~> (pc[c] = "idle")

\* C19 witness: a close holds the streams mutex in join, its writer is inside
\* write_all, a pipe call waits for the mutex at make_stream and a reader
\* holds a work.
C19_Witness ==
    \E c \in Callers :
        /\ pc[c] = "cjoin"
        /\ wpc[call[c].w] = "write"
        /\ \E c2 \in Callers : pc[c2] = "make"
        /\ Held # {}

\* C20: no reader thread ends, and the writer whose Sender a reader holds is
\* running.
C20_ReaderSendNeverFails ==
    \A r \in Readers :
        /\ rpc[r] # "dead"
        /\ rsender[r] # 0 => wpc[rsender[r]] \in {"recv", "write"}

\* C20 witness: a reader is about to send on a Sender whose streams entry a
\* close has removed; the close waits in join and the writer is running.
C20_Witness ==
    \E r \in Readers :
        /\ rpc[r] = "send"
        /\ streams[wfile[rsender[r]]] # rsender[r]
        /\ wpc[rsender[r]] \in {"recv", "write"}
        /\ \E c \in Callers : pc[c] = "cjoin" /\ call[c].w = rsender[r]

====
